---- MODULE Spec2Model ----
(***************************************************************************)
(* Medibot-chatbot: the serving script (app_with_memory.py: the routes /,  *)
(* /get, /clear and /history over the per-session conversation memory) and *)
(* the ingestion script (fresh_index.py: seven stages that rebuild the     *)
(* vector index).                                                          *)
(*                                                                         *)
(* Texts are sequences of tokens: a user message is one token, a joined    *)
(* context is the retrieved page contents with the separator between them, *)
(* an error text is the sequence of its fragments.                         *)
(***************************************************************************)
EXTENDS Integers, Sequences, FiniteSets, TLC

VARIABLES
    chatModel,          \* TRUE: a ChatGroq client, FALSE: None
    api_provider,       \* "Groq" or "None"
    vectorstore,        \* TRUE: a PineconeVectorStore, FALSE: None
    session,            \* the browser's signed cookie, per client: session id or None
    session_memories,   \* dict: session id -> reference to a memory object
    heap,               \* the memory objects: reference -> [k, messages]
    response,           \* the response to the last request
    req,                \* what the last request did: remote calls, prompt, error
    cleared,            \* <<client, messages dropped>> of each client's /clear that no
                        \* /get of the client has followed
    threads,            \* request-handling threads of the threaded server
    pc,                 \* ingestion script: position
    exitCode,           \* ingestion script: exit status, None while running
    log,                \* ingestion script: stages entered in this run, with outcome
    ops,                \* ingestion script: remote index operations of this run
    data,               \* ingestion script: the PDF files in data/
    text_chunks,        \* ingestion script: chunks of this run
    pinecone,           \* the index 'medical-chatbot' at the service
    prev                \* what the last successful ingestion run left

appVars == <<chatModel, api_provider, vectorstore, session, session_memories, heap,
             response, req, cleared>>
ingestVars == <<pc, exitCode, log, ops, data, text_chunks, pinecone, prev>>
vars == <<appVars, threads, ingestVars>>

None == "None"

-----------------------------------------------------------------------------
(* Bounds of the model *)

\* stored exchanges (over all sessions) in Spec
MaxExchanges == 2
\* stored exchanges in SpecWindow: one more than the window
MaxWindowExchanges == 11
\* fragments of an LLM error text
MaxErrLen == 2
\* exchanges stored or in flight in SpecConc
MaxConcExchanges == 2

Clients == {"c1", "c2"}
SessionIds == {"u1", "u2"}
Msgs == {<<"fever?">>, <<"and cough?">>}
DocTexts == {"page A", "page B"}

-----------------------------------------------------------------------------
(* Sequences *)

Range(s) == {s[i] : i \in DOMAIN s}

SeqsUpTo(S, n) == UNION {[1..m -> S] : m \in 0..n}

Restrict(f, D) == [x \in D |-> f[x]]

\* the sum of Len(h[r].messages) over the objects of heap h
RECURSIVE TotalMessages(_)
TotalMessages(h) ==
    IF DOMAIN h = {} THEN 0
    ELSE LET r == CHOOSE x \in DOMAIN h : TRUE
         IN  Len(h[r].messages) + TotalMessages(Restrict(h, DOMAIN h \ {r}))

-----------------------------------------------------------------------------
(* Texts *)

\* str.lower() on a fragment of an error text
Lower(f) ==
    CASE f = "RATE_LIMIT" -> "rate_limit"
      [] f = "Authentication" -> "authentication"
      [] f = "API_KEY" -> "api_key"
      [] f = "INSUFFICIENT_QUOTA" -> "insufficient_quota"
      [] OTHER -> f

LowerText(e) == [i \in DOMAIN e |-> Lower(e[i])]

\* `sub in text`
Contains(sub, text) == \E i \in DOMAIN text : text[i] = sub

Fragments == {"insufficient_quota", "INSUFFICIENT_QUOTA", "429", "rate_limit",
              "RATE_LIMIT", "api_key", "Authentication", "timeout"}

ErrorTexts == SeqsUpTo(Fragments, MaxErrLen)

\* "\n\n".join(parts)
RECURSIVE Join(_)
Join(parts) ==
    IF Len(parts) = 0 THEN <<>>
    ELSE IF Len(parts) = 1 THEN <<parts[1]>>
    ELSE <<parts[1], "\n\n">> \o Join(Tail(parts))

FallbackContext == <<"No specific medical context available.">>

NoApiMessage == <<"No AI API configured. Please add GROQ_API_KEY to your .env file.">>

QuotaMessage == <<api_provider, " API quota exceeded. Please check your billing and usage.">>

RateLimitMessage == <<api_provider, " API rate limit exceeded. Please wait a moment and try again.">>

InvalidKeyMessage == <<api_provider, " API key is invalid. Please check your API key configuration.">>

GenericMessage(e) == <<"Error with ", api_provider, ": ">> \o e

-----------------------------------------------------------------------------
(* app_with_memory.py: module state *)

\* ConversationBufferWindowMemory(k=10, ...)
K == 10

\* similarity_search(msg, k=3)
TopK == 3

HumanMessage(content) == [cls |-> "HumanMessage", content |-> content]

AIMessage(content) == [cls |-> "AIMessage", content |-> content]

SystemMessage(content) == [cls |-> "SystemMessage", content |-> content]

\* a new ConversationBufferWindowMemory: its chat_memory holds no message
NewMemory == [k |-> K, messages |-> <<>>]

\* a reference the heap does not hold
NewRef(h) == CHOOSE r \in 1..(Cardinality(DOMAIN h) + 1) : r \notin DOMAIN h

\* objects nothing refers to are gone
Collect(h, roots) == Restrict(h, DOMAIN h \cap roots)

ThreadRefs == {threads[t].memory : t \in DOMAIN threads} \ {0}

\* the session ids given out so far
UsedIds ==
    Range(session) \cup DOMAIN session_memories
        \cup {threads[t].session_id : t \in DOMAIN threads}

\* session.get('session_id', str(uuid.uuid4())): the id the request works with, the
\* cookie's or else a new one
SessionIdOf(c) ==
    IF session[c] # None THEN {session[c]} ELSE SessionIds \ UsedIds

\* bookkeeping of cleared: a request other than /clear, and a /clear dropping n messages
AfterGet(c) == {p \in cleared : p[1] # c}

AfterClear(c, n) == AfterGet(c) \cup {<<c, n>>}

ClearedClients == {p[1] : p \in cleared}

\* what a request that did nothing remote leaves in req
NoReq == [search |-> "none", docs |-> <<>>, llm_calls |-> 0, llm_raised |-> FALSE,
          prompt |-> <<>>, error |-> <<>>, form |-> [nomsg |-> TRUE]]

Response(route, c, status, body) ==
    [route |-> route, client |-> c, status |-> status, body |-> body]

\* the results a similarity search may return: up to TopK distinct pages, ranked
Retrievals ==
    {d \in SeqsUpTo(DocTexts, TopK) : \A i, j \in DOMAIN d : i # j => d[i] # d[j]}

SearchOutcomes ==
    {[ok |-> FALSE, docs |-> <<>>]} \cup {[ok |-> TRUE, docs |-> d] : d \in Retrievals}

LLMOutcomes(errs) ==
    {[ok |-> TRUE, err |-> <<>>]} \cup {[ok |-> FALSE, err |-> e] : e \in errs}

Forms == {[msg |-> m] : m \in Msgs} \cup {[nomsg |-> TRUE]}

\* a search that raises and one that returns a page
FewSearches == {[ok |-> FALSE, docs |-> <<>>], [ok |-> TRUE, docs |-> <<"page A">>]}

\* a search that raises, one that finds nothing and one that returns two pages
SomeSearches == {[ok |-> FALSE, docs |-> <<>>], [ok |-> TRUE, docs |-> <<>>],
                 [ok |-> TRUE, docs |-> <<"page B", "page A">>]}

\* the environment at import: the two keys, and whether Pinecone initialises
AppInit ==
    /\ chatModel \in BOOLEAN
    /\ api_provider = (IF chatModel THEN "Groq" ELSE "None")
    /\ \E key \in BOOLEAN, initialises \in BOOLEAN : vectorstore = (key /\ initialises)
    /\ session = [c \in Clients |-> None]
    /\ session_memories = <<>>
    /\ heap = <<>>
    /\ response = Response("", None, 0, [none |-> TRUE])
    /\ req = NoReq
    /\ cleared = {}

-----------------------------------------------------------------------------
(* app_with_memory.py: the handlers, one request at a time *)

\* get_memory_for_session: the dict and the heap after it, and the reference returned
get_memory_for_session(sm, h, session_id) ==
    IF session_id \notin DOMAIN sm
    THEN LET r == NewRef(h)
         IN  [sm |-> sm @@ (session_id :> r), heap |-> h @@ (r :> NewMemory), memory |-> r]
    ELSE [sm |-> sm, heap |-> h, memory |-> sm[session_id]]

\* add_message with the new message put first
add_message_first(h, r, m) == [h EXCEPT ![r].messages = <<m>> \o @]

\* chat_memory.add_user_message / add_ai_message: an append, nothing dropped
add_message(h, r, m) == [h EXCEPT ![r].messages = Append(@, m)]

\* Context with the except clause of the search leaving context = ""
ContextLeftEmpty(search) ==
    IF vectorstore
    THEN IF search.ok THEN Join(search.docs) ELSE <<>>
    ELSE FallbackContext

\* the context of the prompt
Context(search) ==
    IF vectorstore
    THEN IF search.ok THEN Join(search.docs) ELSE FallbackContext
    ELSE FallbackContext

\* prompt.format_messages(chat_history, context, input)
format_messages(chat_history, context, input) ==
    <<SystemMessage(<<"Context from medical documents:">> \o context)>>
        \o chat_history \o <<HumanMessage(input)>>

\* the reply the model generates for a prompt: it answers the prompt's last message
LLMAnswer(formatted_prompt) == <<"re:">> \o formatted_prompt[Len(formatted_prompt)].content

\* ErrorReply with the last branch returning the bare error text
ErrorReplyBare(e) ==
    IF Contains("insufficient_quota", e) \/ Contains("429", e) THEN QuotaMessage
    ELSE IF Contains("rate_limit", LowerText(e)) THEN RateLimitMessage
    ELSE IF Contains("api_key", LowerText(e)) \/ Contains("authentication", LowerText(e))
         THEN InvalidKeyMessage
    ELSE e

\* ErrorReply with the test for "rate_limit" made first
ErrorReplyRateFirst(e) ==
    IF Contains("rate_limit", LowerText(e)) THEN RateLimitMessage
    ELSE IF Contains("insufficient_quota", e) \/ Contains("429", e) THEN QuotaMessage
    ELSE IF Contains("api_key", LowerText(e)) \/ Contains("authentication", LowerText(e))
         THEN InvalidKeyMessage
    ELSE GenericMessage(e)

\* the except clause of chat: the message for an error text
ErrorReply(e) ==
    IF Contains("insufficient_quota", e) \/ Contains("429", e) THEN QuotaMessage
    ELSE IF Contains("rate_limit", LowerText(e)) THEN RateLimitMessage
    ELSE IF Contains("api_key", LowerText(e)) \/ Contains("authentication", LowerText(e))
         THEN InvalidKeyMessage
    ELSE GenericMessage(e)

\* GET /
index(c, u) ==
    /\ u \in SessionIdOf(c)
    /\ session' = [session EXCEPT ![c] = u]
    /\ response' = Response("/", c, 200, [template |-> "chat_with_memory.html"])
    /\ req' = NoReq
    /\ UNCHANGED <<chatModel, api_provider, vectorstore, session_memories, heap, cleared>>
    /\ UNCHANGED <<threads, ingestVars>>

\* ChatNoModel with the test for the model made after the retrieval
ChatNoModelLate(c) ==
    /\ ~chatModel
    /\ response' = Response("/get", c, 200, [text |-> NoApiMessage])
    /\ req' = [NoReq EXCEPT !.search = IF vectorstore THEN "ok" ELSE "none"]
    /\ cleared' = AfterGet(c)
    /\ UNCHANGED <<chatModel, api_provider, vectorstore, session, session_memories, heap>>
    /\ UNCHANGED <<threads, ingestVars>>

\* /get without a chat model: the fixed message, before anything else
ChatNoModel(c) ==
    /\ ~chatModel
    /\ response' = Response("/get", c, 200, [text |-> NoApiMessage])
    /\ req' = NoReq
    /\ cleared' = AfterGet(c)
    /\ UNCHANGED <<chatModel, api_provider, vectorstore, session, session_memories, heap>>
    /\ UNCHANGED <<threads, ingestVars>>

\* /get without the form field msg: request.form["msg"] is a 400, outside the try
ChatBadRequest(c, u, form) ==
    /\ chatModel
    /\ "msg" \notin DOMAIN form
    /\ u \in SessionIdOf(c)
    /\ session' = [session EXCEPT ![c] = u]
    /\ response' = Response("/get", c, 400, [text |-> <<"Bad Request">>])
    /\ req' = NoReq
    /\ cleared' = AfterGet(c)
    /\ UNCHANGED <<chatModel, api_provider, vectorstore, session_memories, heap>>
    /\ UNCHANGED <<threads, ingestVars>>

\* /get: memory, retrieval, prompt, the model's reply, then the two appends
ChatTry(c, u, form, search, llm) ==
    /\ chatModel
    /\ "msg" \in DOMAIN form
    /\ u \in SessionIdOf(c)
    /\ LET got == get_memory_for_session(session_memories, heap, u)
           memory == got.memory
           chat_history == got.heap[memory].messages
           context == Context(search)
           formatted_prompt == format_messages(chat_history, context, form.msg)
           answer == LLMAnswer(formatted_prompt)
           called == [search |-> IF ~vectorstore THEN "none"
                                 ELSE IF search.ok THEN "ok" ELSE "raised",
                      docs |-> IF vectorstore THEN search.docs ELSE <<>>,
                      llm_calls |-> 1, llm_raised |-> ~llm.ok,
                      prompt |-> formatted_prompt, error |-> llm.err, form |-> form]
       IN  /\ session' = [session EXCEPT ![c] = u]
           /\ session_memories' = got.sm
           /\ req' = called
           /\ IF llm.ok
              THEN /\ heap' = add_message(add_message(got.heap, memory,
                                  HumanMessage(form.msg)), memory, AIMessage(answer))
                   /\ response' = Response("/get", c, 200, [text |-> answer])
              ELSE /\ heap' = got.heap
                   /\ response' = Response("/get", c, 200, [text |-> ErrorReply(llm.err)])
    /\ cleared' = AfterGet(c)
    /\ UNCHANGED <<chatModel, api_provider, vectorstore, threads, ingestVars>>

\* /get, over the forms a request may carry and the outcomes its remote calls may have
chat(c, forms, searches, outcomes) ==
    \/ ChatNoModel(c)
    \/ \E u \in SessionIdOf(c), form \in forms : ChatBadRequest(c, u, form)
    \/ \E u \in SessionIdOf(c), form \in forms, search \in searches, llm \in outcomes :
          ChatTry(c, u, form, search, llm)

\* clear_conversation without the del
clear_conversation_kept(c) ==
    /\ response' = Response("/clear", c, 200, [status |-> "cleared"])
    /\ req' = NoReq
    /\ cleared' = AfterClear(c, IF session[c] # None /\ session[c] \in DOMAIN session_memories
                                THEN Len(heap[session_memories[session[c]]].messages) ELSE 0)
    /\ UNCHANGED <<chatModel, api_provider, vectorstore, session, session_memories, heap>>
    /\ UNCHANGED <<threads, ingestVars>>

\* POST /clear
clear_conversation(c) ==
    /\ LET session_id == session[c]
       IN  IF session_id # None /\ session_id \in DOMAIN session_memories
           THEN /\ session_memories' =
                       Restrict(session_memories, DOMAIN session_memories \ {session_id})
                /\ heap' = Collect(heap, (Range(session_memories) \ {session_memories[session_id]})
                                          \cup ThreadRefs)
                /\ cleared' = AfterClear(c, Len(heap[session_memories[session_id]].messages))
           ELSE /\ UNCHANGED <<session_memories, heap>>
                /\ cleared' = AfterClear(c, 0)
    /\ response' = Response("/clear", c, 200, [status |-> "cleared"])
    /\ req' = NoReq
    /\ UNCHANGED <<chatModel, api_provider, vectorstore, session, threads, ingestVars>>

\* the list /history builds from a memory's messages
HistoryOf(messages) ==
    LET kept == SelectSeq(messages, LAMBDA m : m.cls \in {"HumanMessage", "AIMessage"})
    IN  [i \in DOMAIN kept |->
            [type |-> IF kept[i].cls = "HumanMessage" THEN "human" ELSE "ai",
             content |-> kept[i].content]]

\* what /history answers a client now
HistoryView(c) ==
    LET session_id == session[c]
    IN  IF session_id # None /\ session_id \in DOMAIN session_memories
        THEN HistoryOf(heap[session_memories[session_id]].messages)
        ELSE <<>>

\* GET /history
get_history(c) ==
    /\ response' = Response("/history", c, 200, [history |-> HistoryView(c)])
    /\ req' = NoReq
    /\ UNCHANGED <<chatModel, api_provider, vectorstore, session, session_memories, heap,
                   cleared, threads, ingestVars>>

\* of the outcomes a search can have, those it can have here: without a vector
\* store none is made
Here(searches) == IF vectorstore THEN searches ELSE {[ok |-> FALSE, docs |-> <<>>]}

\* of the outcomes the model's call can have, those the bound on stored exchanges
\* leaves: at the bound, no further reply
Within(maxExchanges, outcomes) ==
    {llm \in outcomes : llm.ok => TotalMessages(heap) + 2 <= 2 * maxExchanges}

\* one request, handled to its response before the next one
Serve(clients, forms, searches, errs, maxExchanges) ==
    \E c \in clients :
        \/ \E u \in SessionIdOf(c) : index(c, u)
        \/ chat(c, forms, Here(searches), Within(maxExchanges, LLMOutcomes(errs)))
        \/ clear_conversation(c)
        \/ get_history(c)

-----------------------------------------------------------------------------
(* app_with_memory.py under the threaded server: a thread per request, the    *)
(* handlers' reads and writes of session_memories and of a memory's list      *)
(* interleaved                                                                *)

Threads == {"t1", "t2"}

IdleThread == [pc |-> "idle", route |-> "", client |-> None, session_id |-> None,
               form |-> [nomsg |-> TRUE], memory |-> 0, context |-> <<>>,
               set_cookie |-> FALSE, answer |-> <<>>, status |-> 0, text |-> <<>>,
               dropped |-> 0, req |-> NoReq]

ThreadsInit == threads = [t \in Threads |-> IdleThread]

LiveRefs(sm, th) == Range(sm) \cup ({th[t].memory : t \in DOMAIN th} \ {0})

\* a /get request reaches a thread: lines 94-105
TChatBegin(t, c, u, form) ==
    /\ threads[t].pc = "idle"
    /\ u \in SessionIdOf(c)
    /\ threads' = [threads EXCEPT ![t] =
          IF ~chatModel
          THEN [IdleThread EXCEPT !.pc = "return", !.route = "/get", !.client = c,
                                  !.status = 200, !.text = NoApiMessage]
          ELSE IF "msg" \notin DOMAIN form
          THEN [IdleThread EXCEPT !.pc = "return", !.route = "/get", !.client = c,
                                  !.session_id = u, !.set_cookie = (session[c] = None),
                                  !.status = 400, !.text = <<"Bad Request">>]
          ELSE [IdleThread EXCEPT !.pc = "lookup", !.route = "/get", !.client = c,
                                  !.session_id = u, !.set_cookie = (session[c] = None),
                                  !.form = form,
                                  !.req = [NoReq EXCEPT !.form = form]]]
    /\ UNCHANGED <<appVars, ingestVars>>

\* get_memory_for_session, line 77: the test
TLookup(t) ==
    /\ threads[t].pc = "lookup"
    /\ threads' = [threads EXCEPT ![t].pc =
          IF threads[t].session_id \notin DOMAIN session_memories THEN "create" ELSE "fetch"]
    /\ UNCHANGED <<appVars, ingestVars>>

\* get_memory_for_session, line 78: the store of a new memory, over whatever is there
TCreate(t) ==
    /\ threads[t].pc = "create"
    /\ LET r == NewRef(heap)
           sm == (threads[t].session_id :> r) @@ session_memories
       IN  /\ session_memories' = sm
           /\ heap' = Collect(heap @@ (r :> NewMemory), LiveRefs(sm, threads))
    /\ threads' = [threads EXCEPT ![t].pc = "fetch"]
    /\ UNCHANGED <<chatModel, api_provider, vectorstore, session, response, req, cleared,
                   ingestVars>>

\* get_memory_for_session, line 83: the read; a KeyError when the entry is gone
TFetch(t) ==
    /\ threads[t].pc = "fetch"
    /\ threads' = [threads EXCEPT ![t] =
          IF threads[t].session_id \in DOMAIN session_memories
          THEN [@ EXCEPT !.pc = "search", !.memory = session_memories[threads[t].session_id]]
          ELSE [@ EXCEPT !.pc = "return", !.status = 200,
                         !.text = ErrorReply(<<"'", threads[t].session_id, "'">>)]]
    /\ UNCHANGED <<appVars, ingestVars>>

\* lines 112-125: the context
TSearch(t, search) ==
    /\ threads[t].pc = "search"
    /\ threads' = [threads EXCEPT ![t] =
          [@ EXCEPT !.pc = "invoke", !.context = Context(search),
                    !.req = [@ EXCEPT !.search = IF ~vectorstore THEN "none"
                                                 ELSE IF search.ok THEN "ok" ELSE "raised",
                                      !.docs = search.docs]]]
    /\ UNCHANGED <<appVars, ingestVars>>

\* lines 128-136: the prompt over the list as it is now, and the model's reply
TInvoke(t, llm) ==
    /\ threads[t].pc = "invoke"
    /\ LET th == threads[t]
           formatted_prompt ==
               format_messages(heap[th.memory].messages, th.context, th.form.msg)
           called == [th.req EXCEPT !.llm_calls = 1, !.llm_raised = ~llm.ok,
                                    !.prompt = formatted_prompt, !.error = llm.err]
       IN  threads' = [threads EXCEPT ![t] =
              IF llm.ok
              THEN [@ EXCEPT !.pc = "add_user", !.answer = LLMAnswer(formatted_prompt),
                             !.req = called]
              ELSE [@ EXCEPT !.pc = "return", !.status = 200, !.text = ErrorReply(llm.err),
                             !.req = called]]
    /\ UNCHANGED <<appVars, ingestVars>>

\* line 139
TAddUser(t) ==
    /\ threads[t].pc = "add_user"
    /\ heap' = add_message(heap, threads[t].memory, HumanMessage(threads[t].form.msg))
    /\ threads' = [threads EXCEPT ![t].pc = "add_ai"]
    /\ UNCHANGED <<chatModel, api_provider, vectorstore, session, session_memories,
                   response, req, cleared, ingestVars>>

\* lines 140-145
TAddAI(t) ==
    /\ threads[t].pc = "add_ai"
    /\ heap' = add_message(heap, threads[t].memory, AIMessage(threads[t].answer))
    /\ threads' = [threads EXCEPT ![t] =
          [@ EXCEPT !.pc = "return", !.status = 200, !.text = threads[t].answer]]
    /\ UNCHANGED <<chatModel, api_provider, vectorstore, session, session_memories,
                   response, req, cleared, ingestVars>>

\* the response leaves: the cookie is written with it, the thread's references go
TReturn(t) ==
    /\ threads[t].pc = "return"
    /\ LET th == threads[t]
           after == [threads EXCEPT ![t] = IdleThread]
       IN  /\ response' = Response(th.route, th.client, th.status,
                              IF th.route = "/clear" /\ th.status = 200
                              THEN [status |-> "cleared"] ELSE [text |-> th.text])
           /\ req' = th.req
           /\ session' = IF th.set_cookie
                         THEN [session EXCEPT ![th.client] = th.session_id]
                         ELSE session
           /\ cleared' = IF th.route = "/clear" /\ th.status = 200
                         THEN AfterClear(th.client, th.dropped) ELSE AfterGet(th.client)
           /\ threads' = after
           /\ heap' = Collect(heap, LiveRefs(session_memories, after))
    /\ UNCHANGED <<chatModel, api_provider, vectorstore, session_memories, ingestVars>>

\* /clear reaches a thread, line 162: the test
TClearBegin(t, c) ==
    /\ threads[t].pc = "idle"
    /\ threads' = [threads EXCEPT ![t] =
          IF session[c] # None /\ session[c] \in DOMAIN session_memories
          THEN [IdleThread EXCEPT !.pc = "del", !.route = "/clear", !.client = c,
                                  !.session_id = session[c]]
          ELSE [IdleThread EXCEPT !.pc = "return", !.route = "/clear", !.client = c,
                                  !.status = 200]]
    /\ UNCHANGED <<appVars, ingestVars>>

\* /clear, line 163: the del; a KeyError, and so a 500, when the entry is gone
TClearDel(t) ==
    /\ threads[t].pc = "del"
    /\ LET sid == threads[t].session_id
       IN  IF sid \in DOMAIN session_memories
           THEN LET sm == Restrict(session_memories, DOMAIN session_memories \ {sid})
                IN  /\ session_memories' = sm
                    /\ heap' = Collect(heap, LiveRefs(sm, threads))
                    /\ threads' = [threads EXCEPT ![t] =
                          [@ EXCEPT !.pc = "return", !.status = 200,
                                    !.dropped = Len(heap[session_memories[sid]].messages)]]
           ELSE /\ UNCHANGED <<session_memories, heap>>
                /\ threads' = [threads EXCEPT ![t] =
                       [@ EXCEPT !.pc = "return", !.status = 500,
                                 !.text = <<"Internal Server Error">>]]
    /\ UNCHANGED <<chatModel, api_provider, vectorstore, session, response, req, cleared,
                   ingestVars>>

\* messages held by memories and messages the requests in flight may still add
Pending ==
    TotalMessages(heap)
    + 2 * Cardinality({t \in Threads : threads[t].pc \in
                          {"lookup", "create", "fetch", "search", "invoke", "add_user"}})
    + Cardinality({t \in Threads : threads[t].pc = "add_ai"})

Concurrent(clients, forms, searches, errs, maxExchanges) ==
    \E t \in Threads :
        \/ \E c \in clients, form \in forms : \E u \in SessionIdOf(c) :
              /\ Pending + 2 <= 2 * maxExchanges
              /\ TChatBegin(t, c, u, form)
        \/ TLookup(t)
        \/ TCreate(t)
        \/ TFetch(t)
        \/ \E search \in Here(searches) : TSearch(t, search)
        \/ \E llm \in LLMOutcomes(errs) : TInvoke(t, llm)
        \/ TAddUser(t)
        \/ TAddAI(t)
        \/ TReturn(t)
        \/ \E c \in clients : TClearBegin(t, c)
        \/ TClearDel(t)

-----------------------------------------------------------------------------
(* src/helper.py, as fresh_index.py uses it: pages, filter, splitter *)

Files == {"a.pdf", "b.pdf"}

\* the text of each page of a PDF file, a character a number
PdfPages(f) ==
    IF f = "a.pdf" THEN << <<1, 2, 3, 4, 5, 6>>, <<>> >> ELSE << <<7, 8>> >>

\* characters of a chunk, and characters two adjacent chunks share
ChunkSize == 4

ChunkOverlap == 1

\* the files of a directory in the order the loader lists them
RECURSIVE Listing(_)
Listing(d) ==
    IF d = {} THEN <<>>
    ELSE LET f == CHOOSE x \in d : \A y \in d : (x = "a.pdf") \/ (y # "a.pdf")
         IN  <<f>> \o Listing(d \ {f})

\* load_pdf_file: one Document per page of each file
RECURSIVE load_pdf_file(_)
load_pdf_file(listing) ==
    IF listing = <<>> THEN <<>>
    ELSE LET f == Head(listing)
         IN  [i \in DOMAIN PdfPages(f) |->
                 [source |-> f, page |-> i, page_content |-> PdfPages(f)[i]]]
             \o load_pdf_file(Tail(listing))

\* filter_to_minimal_docs: source and text only, pages without text dropped
filter_to_minimal_docs(docs) ==
    LET kept == SelectSeq(docs, LAMBDA doc : Len(doc.page_content) > 0)
    IN  [i \in DOMAIN kept |->
            [source |-> kept[i].source, page_content |-> kept[i].page_content]]

\* the windows of ChunkSize characters over a text, from character `from` on
RECURSIVE Windows(_, _)
Windows(text, from) ==
    IF from + ChunkSize - 1 >= Len(text)
    THEN <<SubSeq(text, from, Len(text))>>
    ELSE <<SubSeq(text, from, from + ChunkSize - 1)>>
         \o Windows(text, from + ChunkSize - ChunkOverlap)

\* text_split: the chunks of every document, in order
RECURSIVE text_split(_)
text_split(docs) ==
    IF docs = <<>> THEN <<>>
    ELSE LET doc == Head(docs)
             w == Windows(doc.page_content, 1)
         IN  [i \in DOMAIN w |-> [source |-> doc.source, page_content |-> w[i]]]
             \o text_split(Tail(docs))

\* all-MiniLM-L6-v2 vectors
EmbeddingDim == 384

-----------------------------------------------------------------------------
(* fresh_index.py *)

\* create_index(dimension=384, metric="cosine")
Dimension == 384

Stages == <<"step1", "step2", "step3", "step4", "step5", "step6", "step7">>

StageAfter(stage) ==
    LET i == CHOOSE j \in DOMAIN Stages : Stages[j] = stage
    IN  IF i = Len(Stages) THEN "exit" ELSE Stages[i + 1]

NoIndex == [exists |-> FALSE, dimension |-> 0, metric |-> "", vectors |-> <<>>]

IngestInit ==
    /\ pc = "idle"
    /\ exitCode = None
    /\ log = <<>>
    /\ ops = <<>>
    /\ data = {}
    /\ text_chunks = <<>>
    /\ pinecone = NoIndex
    /\ prev = <<>>

\* the script is started on a data directory; without the key line 16 raises
Start(d, key) ==
    /\ pc \in {"idle", "exit"}
    /\ data' = d
    /\ log' = <<>>
    /\ ops' = <<>>
    /\ text_chunks' = <<>>
    /\ IF key THEN pc' = "step1" /\ exitCode' = None
              ELSE pc' = "exit" /\ exitCode' = "1"
    /\ prev' = IF pc = "exit" /\ exitCode = "0"
               THEN <<[data |-> data, count |-> Len(pinecone.vectors)]>>
               ELSE prev
    /\ UNCHANGED <<pinecone, appVars, threads>>

\* StageFailed without the exit(1): the script goes on
StageFailedGoesOn(stage) ==
    /\ log' = Append(log, [stage |-> stage, ok |-> FALSE])
    /\ pc' = StageAfter(stage)
    /\ exitCode' = (IF StageAfter(stage) = "exit" THEN "0" ELSE None)

\* except Exception: print, exit(1)
StageFailed(stage) ==
    /\ log' = Append(log, [stage |-> stage, ok |-> FALSE])
    /\ pc' = "exit"
    /\ exitCode' = "1"

\* the try block ran through: on to the next stage, or off the end of the script
StagePassed(stage) ==
    /\ log' = Append(log, [stage |-> stage, ok |-> TRUE])
    /\ pc' = StageAfter(stage)
    /\ exitCode' = (IF StageAfter(stage) = "exit" THEN "0" ELSE None)

\* Step 1: load, then the average over the documents
Step1(raises) ==
    /\ pc = "step1"
    /\ LET extracted_data == load_pdf_file(Listing(data))
       IN  IF raises \/ Len(extracted_data) = 0
           THEN StageFailed("step1") ELSE StagePassed("step1")
    /\ UNCHANGED <<ops, data, text_chunks, pinecone, prev>>
    /\ UNCHANGED <<appVars, threads>>

\* Step 2: filter
Step2(raises) ==
    /\ pc = "step2"
    /\ IF raises THEN StageFailed("step2") ELSE StagePassed("step2")
    /\ UNCHANGED <<ops, data, text_chunks, pinecone, prev>>
    /\ UNCHANGED <<appVars, threads>>

\* Step 3: split, then the average and the range over the chunks
Step3(raises) ==
    /\ pc = "step3"
    /\ LET filter_data == filter_to_minimal_docs(load_pdf_file(Listing(data)))
           chunks == text_split(filter_data)
       IN  IF raises
           THEN StageFailed("step3") /\ UNCHANGED text_chunks
           ELSE /\ text_chunks' = chunks
                /\ IF Len(chunks) = 0 THEN StageFailed("step3") ELSE StagePassed("step3")
    /\ UNCHANGED <<ops, data, pinecone, prev>>
    /\ UNCHANGED <<appVars, threads>>

\* Step 4: the embedding model
Step4(raises) ==
    /\ pc = "step4"
    /\ IF raises THEN StageFailed("step4") ELSE StagePassed("step4")
    /\ UNCHANGED <<ops, data, text_chunks, pinecone, prev>>
    /\ UNCHANGED <<appVars, threads>>

Op(name, ok) == [op |-> name, ok |-> ok]

\* Step5 keeping an index that exists: neither deleted nor created again
Step5KeepsIndex(raises) ==
    /\ pc = "step5"
    /\ raises \in {"", "has_index", "create_index"}
    /\ LET creates == raises # "has_index" /\ ~pinecone.exists
           created == creates /\ raises # "create_index"
           ok == raises # "has_index" /\ (pinecone.exists \/ created)
       IN  /\ ops' = ops \o <<Op("has_index", raises # "has_index")>>
                       \o (IF creates THEN <<Op("create_index", created)>> ELSE <<>>)
           /\ pinecone' = IF created
                          THEN [exists |-> TRUE, dimension |-> Dimension,
                                metric |-> "cosine", vectors |-> <<>>]
                          ELSE pinecone
           /\ IF ok THEN StagePassed("step5") ELSE StageFailed("step5")
    /\ UNCHANGED <<data, text_chunks, prev>>
    /\ UNCHANGED <<appVars, threads>>

\* Step 5: has_index, delete_index if present, create_index; `raises` names the call
\* that raises, "" for none
Step5(raises) ==
    /\ pc = "step5"
    /\ raises \in {"", "has_index", "create_index"}
                  \cup (IF pinecone.exists THEN {"delete_index"} ELSE {})
    /\ LET deletes == pinecone.exists /\ raises # "has_index"
           deleted == deletes /\ raises # "delete_index"
           creates == raises \notin {"has_index", "delete_index"}
           created == creates /\ raises # "create_index" /\ (deleted \/ ~pinecone.exists)
       IN  /\ ops' = ops \o <<Op("has_index", raises # "has_index")>>
                       \o (IF deletes THEN <<Op("delete_index", deleted)>> ELSE <<>>)
                       \o (IF creates THEN <<Op("create_index", created)>> ELSE <<>>)
           /\ pinecone' = IF created
                          THEN [exists |-> TRUE, dimension |-> Dimension,
                                metric |-> "cosine", vectors |-> <<>>]
                          ELSE IF deleted THEN NoIndex ELSE pinecone
           /\ IF created THEN StagePassed("step5") ELSE StageFailed("step5")
    /\ UNCHANGED <<data, text_chunks, prev>>
    /\ UNCHANGED <<appVars, threads>>

\* Step 6: from_documents upserts the chunks in order; a failure leaves `sent` of them
Step6(raises, sent) ==
    /\ pc = "step6"
    /\ raises => sent < Len(text_chunks)
    /\ LET ok == ~raises /\ pinecone.exists /\ pinecone.dimension = EmbeddingDim
           n == IF ok THEN Len(text_chunks) ELSE IF pinecone.exists THEN sent ELSE 0
       IN  /\ ~raises => sent = Len(text_chunks)
           /\ ops' = Append(ops, Op("upload", ok))
           /\ pinecone' = [pinecone EXCEPT !.vectors = @ \o SubSeq(text_chunks, 1, n)]
           /\ IF ok THEN StagePassed("step6") ELSE StageFailed("step6")
    /\ UNCHANGED <<data, text_chunks, prev>>
    /\ UNCHANGED <<appVars, threads>>

\* Step 7: one similarity query
Step7(raises) ==
    /\ pc = "step7"
    /\ ops' = Append(ops, Op("query", ~raises))
    /\ IF raises THEN StageFailed("step7") ELSE StagePassed("step7")
    /\ UNCHANGED <<data, text_chunks, pinecone, prev>>
    /\ UNCHANGED <<appVars, threads>>

IngestNext ==
    \/ \E d \in SUBSET Files, key \in BOOLEAN : Start(d, key)
    \/ \E raises \in BOOLEAN : Step1(raises)
    \/ \E raises \in BOOLEAN : Step2(raises)
    \/ \E raises \in BOOLEAN : Step3(raises)
    \/ \E raises \in BOOLEAN : Step4(raises)
    \/ \E raises \in {"", "has_index", "delete_index", "create_index"} : Step5(raises)
    \/ \E raises \in BOOLEAN, sent \in 0..Len(text_chunks) : Step6(raises, sent)
    \/ \E raises \in BOOLEAN : Step7(raises)

-----------------------------------------------------------------------------
(* Specifications *)

ThreadsIdle == threads = <<>>

\* the server, one request at a time, two browsers
Init == AppInit /\ ThreadsIdle /\ IngestInit

Next == Serve(Clients, Forms, SomeSearches, {<<"429">>, <<"timeout">>}, MaxExchanges)

Spec == Init /\ [][Next]_vars

\* the ingestion script, run after run
SpecIngest == Init /\ [][IngestNext]_vars

\* the server over a long conversation: one browser, no vector store, past the window
\* of K exchanges
InitWindow == Init /\ ~vectorstore

WindowNext == Serve({"c1"}, Forms, FewSearches, {<<"timeout">>}, MaxWindowExchanges)

SpecWindow == InitWindow /\ [][WindowNext]_vars

\* the server over every error text of up to MaxErrLen fragments
ErrorsNext ==
    Serve({"c1"}, {[msg |-> <<"fever?">>], [nomsg |-> TRUE]}, {[ok |-> FALSE, docs |-> <<>>]},
          ErrorTexts, 1)

SpecErrors == Init /\ [][ErrorsNext]_vars

\* the threaded server without a vector store: two requests in flight
InitConc == AppInit /\ ~vectorstore /\ ThreadsInit /\ IngestInit

ConcNext ==
    Concurrent({"c1"}, Forms, {[ok |-> FALSE, docs |-> <<>>]}, {<<"timeout">>},
               MaxConcExchanges)

SpecConc == InitConc /\ [][ConcNext]_vars

-----------------------------------------------------------------------------
(* The claims *)

\* a conversation of adjacent pairs: a human message, then the reply to it
Paired(messages) ==
    /\ Len(messages) % 2 = 0
    /\ \A i \in DOMAIN messages :
          IF i % 2 = 1
          THEN messages[i].cls = "HumanMessage"
          ELSE /\ messages[i].cls = "AIMessage"
               /\ messages[i].content = <<"re:">> \o messages[i - 1].content

\* the last request was a /get with a message, handled with a chat model
GetWithMessage ==
    /\ response.route = "/get"
    /\ chatModel
    /\ "msg" \in DOMAIN req.form

\* C1: what /history answers a session is never more than the last K exchanges
\* (2 * K messages), however many exchanges the session had.
C1_HistoryWithinWindow ==
    \A c \in Clients : Len(HistoryView(c)) <= 2 * K

\* C2: from a /clear on and until the client's next /get, the client's session has no
\* conversation and /history answers the empty list; /clear answers
\* {"status": "cleared"} whatever the session held.
C2_HistoryEmptyAfterClear ==
    /\ \A c \in ClearedClients :
          /\ session[c] = None \/ session[c] \notin DOMAIN session_memories
          /\ HistoryView(c) = <<>>
    /\ (response.route = "/history" /\ response.client \in ClearedClients)
          => response.body = [history |-> <<>>]
    /\ response.route = "/clear"
          => /\ response.status = 200
             /\ response.body = [status |-> "cleared"]
             /\ response.client \in ClearedClients

\* a /clear that dropped a conversation, then the client's /history
C2_Witness ==
    /\ response.route = "/history"
    /\ \E p \in cleared : p[1] = response.client /\ p[2] > 0

\* C3: a /get answered with a generated reply extends what /history reports by the
\* user's text as "human" and then the reply as "ai", after all earlier messages; a
\* /get answered with an error message leaves what /history reports as it was.
C3_GetAppendsOnePair ==
    [][\A c \in Clients :
          (response'.route = "/get" /\ response'.client = c /\ "msg" \in DOMAIN req'.form)
             => IF req'.llm_raised
                THEN HistoryView(c)' = HistoryView(c)
                ELSE /\ response'.body.text = <<"re:">> \o req'.form.msg
                     /\ HistoryView(c)' =
                           HistoryView(c)
                           \o <<[type |-> "human", content |-> req'.form.msg],
                                [type |-> "ai", content |-> response'.body.text]>>]_vars

\* a reply appended to a conversation already longer than the window
C3_Witness ==
    /\ GetWithMessage
    /\ ~req.llm_raised
    /\ Len(HistoryView(response.client)) = 2 * K + 2

\* C4: without a chat model every /get is answered with the fixed message, and no
\* vector search and no LLM call is made for it.
C4_NoModelNoRemoteCall ==
    (~chatModel /\ response.route = "/get")
        => /\ response.status = 200
           /\ response.body = [text |-> NoApiMessage]
           /\ req.search = "none"
           /\ req.llm_calls = 0

C4_Witness == ~chatModel /\ vectorstore /\ response.route = "/get"

\* the system message of the prompt holds the fallback context and no retrieved page
FallbackPrompt ==
    /\ req.prompt[1] = SystemMessage(<<"Context from medical documents:">> \o FallbackContext)
    /\ \A i \in DOMAIN req.prompt[1].content : req.prompt[1].content[i] \notin DocTexts

\* C5 as claimed: with no vector store, or the search of the request raising, and a
\* chat model, the prompt holds the fallback context, the LLM is invoked and its
\* answer is what the request returns.
C5_FallbackAndAnswer ==
    (GetWithMessage /\ req.search # "ok")
        => /\ FallbackPrompt
           /\ req.llm_calls = 1
           /\ response.status = 200
           /\ response.body.text = <<"re:">> \o req.form.msg

\* C5 amended: with no vector store, or the search of the request raising, and a
\* chat model, the prompt holds the fallback context and the LLM is invoked once; the
\* request returns the LLM's answer when that invocation succeeds, and one of the
\* error messages when it raises.
C5_FallbackThenLLM ==
    (GetWithMessage /\ req.search # "ok")
        => /\ FallbackPrompt
           /\ req.llm_calls = 1
           /\ response.status = 200
           /\ IF req.llm_raised
              THEN response.body.text \in
                      {QuotaMessage, RateLimitMessage, InvalidKeyMessage,
                       GenericMessage(req.error)}
              ELSE response.body.text = <<"re:">> \o req.form.msg

\* the search raised and the LLM answered
C5_Witness ==
    /\ GetWithMessage
    /\ req.search = "raised"
    /\ ~req.llm_raised
    /\ response.body.text = <<"re:">> \o req.form.msg

\* C6: an LLM invocation that raises is answered with status 200 and one of the four
\* messages, the generic one carrying the error text; the LLM was called once.
C6_FailureIsAMessage ==
    (response.route = "/get" /\ req.llm_raised)
        => /\ response.status = 200
           /\ response.body.text \in
                 {QuotaMessage, RateLimitMessage, InvalidKeyMessage,
                  <<"Error with ", "Groq", ": ">> \o req.error}
           /\ req.llm_calls = 1

\* an error text of no class, answered with the generic message
C6_Witness ==
    /\ response.route = "/get"
    /\ req.llm_raised
    /\ req.error = <<"timeout", "INSUFFICIENT_QUOTA">>
    /\ response.body.text = <<"Error with ", "Groq", ": ", "timeout", "INSUFFICIENT_QUOTA">>

\* C7: the stages run in their order; a stage that fails is the last one of the run
\* and the run ends with a non-zero exit; the index is touched only after stages 1-4
\* passed, and chunks are uploaded only after the fresh index was created.
C7_StagesInOrder ==
    /\ Len(log) <= Len(Stages)
    /\ \A i \in DOMAIN log :
          /\ log[i].stage = Stages[i]
          /\ ~log[i].ok => (i = Len(log) /\ pc = "exit" /\ exitCode = "1")
    /\ pc \in Range(Stages) => (exitCode = None /\ pc = Stages[Len(log) + 1])
    /\ exitCode = "0" => (pc = "exit" /\ Len(log) = Len(Stages))
    /\ ops # <<>> => (Len(log) >= 5 /\ \A i \in 1..4 : log[i].ok)
    /\ \A i \in DOMAIN ops :
          /\ ops[i].op = "delete_index" => \E j \in 1..(i - 1) : ops[j] = Op("has_index", TRUE)
          /\ ops[i].op = "upload" => \E j \in 1..(i - 1) : ops[j] = Op("create_index", TRUE)
          /\ ops[i].op = "query" => \E j \in 1..(i - 1) : ops[j] = Op("upload", TRUE)

\* the index was deleted and its creation failed: the run ended there
C7_Witness ==
    /\ pc = "exit"
    /\ exitCode = "1"
    /\ Len(log) = 5
    /\ \E i \in DOMAIN ops : ops[i] = Op("delete_index", TRUE)
    /\ ~pinecone.exists

\* C8: after a run that exits 0 the index exists with dimension 384 and the cosine
\* metric and holds exactly the chunks of this run's data, and as many of them as the
\* last successful run left when that run had the same data.
C8_IndexHoldsThisRun ==
    (pc = "exit" /\ exitCode = "0")
        => /\ pinecone.exists
           /\ pinecone.dimension = 384
           /\ pinecone.metric = "cosine"
           /\ pinecone.vectors = text_chunks
           /\ text_chunks = text_split(filter_to_minimal_docs(load_pdf_file(Listing(data))))
           /\ \A i \in DOMAIN prev :
                 prev[i].data = data => prev[i].count = Len(pinecone.vectors)

\* a second successful run on the same files
C8_Witness ==
    /\ pc = "exit"
    /\ exitCode = "0"
    /\ prev # <<>>
    /\ prev[1].data = data
    /\ Len(pinecone.vectors) >= 2

\* C9: with no request in flight, every session's conversation is a sequence of
\* adjacent pairs: a human message, then the reply generated for it.
C9_ConversationsPaired ==
    (\A t \in Threads : threads[t].pc = "idle")
        => \A sid \in DOMAIN session_memories : Paired(heap[session_memories[sid]].messages)

\* the classes of an error text, by the substrings it holds
QuotaText(e) == Contains("insufficient_quota", e) \/ Contains("429", e)

RateLimitText(e) == Contains("rate_limit", LowerText(e))

AuthText(e) == Contains("api_key", LowerText(e)) \/ Contains("authentication", LowerText(e))

\* C10 as claimed: an error text with "rate_limit" in it is answered with the
\* rate-limit message, one with "api_key" or "authentication" in it with the
\* invalid-key message, one with "insufficient_quota" or "429" in it with the quota
\* message.
C10_EachClassItsMessage ==
    (response.route = "/get" /\ req.llm_raised)
        => /\ RateLimitText(req.error) => response.body.text = RateLimitMessage
           /\ AuthText(req.error) => response.body.text = InvalidKeyMessage
           /\ QuotaText(req.error) => response.body.text = QuotaMessage

\* C10 amended: the classes are tested in the order quota, rate limit, key, and the
\* first that matches decides: a text with "insufficient_quota" or "429" in it is
\* answered with the quota message; a text without these and with "rate_limit" in it
\* with the rate-limit message; a text without any of these and with "api_key" or
\* "authentication" in it with the invalid-key message.
C10_FirstClassDecides ==
    (response.route = "/get" /\ req.llm_raised)
        => /\ QuotaText(req.error) => response.body.text = QuotaMessage
           /\ (~QuotaText(req.error) /\ RateLimitText(req.error))
                 => response.body.text = RateLimitMessage
           /\ (~QuotaText(req.error) /\ ~RateLimitText(req.error) /\ AuthText(req.error))
                 => response.body.text = InvalidKeyMessage

\* a rate-limit error carrying its status 429, answered with the quota message
C10_Witness ==
    /\ response.route = "/get"
    /\ req.llm_raised
    /\ req.error = <<"429", "rate_limit">>
    /\ response.body.text = <<"Groq", " API quota exceeded. Please check your billing and usage.">>

====
